---- MODULE Spec2Model ----
(***************************************************************************)
(* Shift tracking of discord-idle-bot: the tables of database.py            *)
(* (active_shifts, shift_history, status_logs, break_logs), the handlers    *)
(* of bot.py (checkin, checkout, take_break, on_presence_update), the       *)
(* idle-warning and break-end timer tasks and the two cooldown gates.       *)
(* Time is counted in seconds; a handler runs at the instant `now`.         *)
(***************************************************************************)
EXTENDS Integers, Sequences, FiniteSets, TLC

\* ------------------------------------------------------------------ bounds
MaxShifts == 2         \* check-ins in one behaviour (all users)

Users == {1, 2}

\* The instants (seconds) at which handlers run.  300 s after the start the
\* idle-warning delay has passed, 2700 s after the start a break that began
\* at 0 or at 300 is over (2700 - 300 = 2400 s is the break-end sleep,
\* 2700 - 0 is a timer that fires late), and 2400 s exceeds the cooldown.
Instants == {0, 300, 2700}

\* ------------------------------------------------------- program constants
IDLE_WARNING_TIME == 300
WARNING_COOLDOWN == 1800
BREAK_MINUTES == 40
BREAK_SLEEP == 2400
NULL == -1

\* the presence of a member as an event delivers it: the overall status and
\* the status per surface
Presence(s, m, d, w) == [status |-> s, mobile_status |-> m, desktop_status |-> d, web_status |-> w]

\* on the desktop client only
DesktopPresences ==
    { Presence("offline", "offline", "offline", "offline"),
      Presence("online",  "offline", "online",  "offline"),
      Presence("idle",    "offline", "idle",    "offline") }

\* also idle on the phone as well as on the desktop
SurfacePresences ==
    DesktopPresences \cup { Presence("idle", "idle", "idle", "offline") }

Presences ==
    SurfacePresences \cup
    { Presence("dnd",     "offline", "dnd",     "offline"),
      Presence("online",  "online",  "offline", "offline"),
      Presence("online",  "offline", "online",  "online") }

TRACKED_STATUSES(s) ==
    CASE s = "online"  -> "online"
      [] s = "idle"    -> "idle"
      [] s = "dnd"     -> "online"
      [] s = "offline" -> "offline"

VARIABLES
    now,                    \* datetime.now(PKT), in seconds
    presence,               \* the member's presence as last delivered (the event's `before`)
    active_shifts,          \* table active_shifts: a set of rows
    shift_history,          \* table shift_history: rows in id order
    status_logs,            \* table status_logs: rows in id order
    break_logs,             \* table break_logs: rows in id order
    tasks,                  \* the asyncio timer tasks that are still sleeping
    break_timers,           \* dict user id -> break-end task
    idle_timers,            \* dict user id -> idle-warning task
    mobile_warnings_sent,   \* dict user id -> time of the last mobile alert
    offline_warnings_sent,  \* dict user id -> time of the last offline alert
    last,                   \* the handler that ran last and what it reported
    idle_warned,            \* idle warnings requested since the tracked status last changed
    off_first,              \* time of the first offline event handled in the shift
    off_count,              \* offline alerts requested within the cooldown window after off_first (2: two or more)
    mob_first,              \* time of the first mobile alert requested in the shift
    mob_count,              \* mobile alerts requested within the cooldown window after mob_first (2: two or more)
    quiet,                  \* no presence event and no break since the check-in
    checkouts               \* successful check-outs per user

vars == <<now, presence, active_shifts, shift_history, status_logs, break_logs,
          tasks, break_timers, idle_timers, mobile_warnings_sent, offline_warnings_sent,
          last, idle_warned, off_first, off_count, mob_first, mob_count, quiet, checkouts>>

tables == <<active_shifts, shift_history, status_logs, break_logs>>
timers == <<tasks, break_timers, idle_timers>>
gates == <<mobile_warnings_sent, offline_warnings_sent>>
ghosts == <<idle_warned, off_first, off_count, mob_first, mob_count, quiet, checkouts>>

\* --------------------------------------------------------------- helpers
Min(a, b) == IF a < b THEN a ELSE b
Max(a, b) == IF a > b THEN a ELSE b

\* int(timedelta.total_seconds() / 60) for a non-negative difference
Minutes(seconds) == seconds \div 60

RECURSIVE SumDuration(_)
SumDuration(rows) ==
    IF rows = <<>> THEN 0 ELSE Head(rows).duration_minutes + SumDuration(Tail(rows))

\* SELECT ... FROM active_shifts WHERE user_id = ?
ShiftRows(u) == {s \in active_shifts : s.user_id = u}
HasShift(u) == ShiftRows(u) # {}
ShiftOf(u) == CHOOSE s \in ShiftRows(u) : TRUE

Report(op, u, ok) == [op |-> op, user |-> u, ok |-> ok]

Init ==
    /\ now = 0
    /\ presence = [u \in Users |-> Presence("online", "offline", "online", "offline")]
    /\ active_shifts = {}
    /\ shift_history = <<>>
    /\ status_logs = <<>>
    /\ break_logs = <<>>
    /\ tasks = {}
    /\ break_timers = [u \in Users |-> NULL]
    /\ idle_timers = [u \in Users |-> NULL]
    /\ mobile_warnings_sent = [u \in Users |-> NULL]
    /\ offline_warnings_sent = [u \in Users |-> NULL]
    /\ last = Report("init", 0, TRUE)
    /\ idle_warned = [u \in Users |-> 0]
    /\ off_first = [u \in Users |-> NULL]
    /\ off_count = [u \in Users |-> 0]
    /\ mob_first = [u \in Users |-> NULL]
    /\ mob_count = [u \in Users |-> 0]
    /\ quiet = [u \in Users |-> FALSE]
    /\ checkouts = [u \in Users |-> 0]

\* ------------------------------------------------- database.py TimeTracker
\* The row check_in inserts: status online since now, not on break,
\* break_start_time left NULL.
NewShift(u, t) ==
    [user_id |-> u, check_in_time |-> t, current_status |-> "online",
     status_start_time |-> t, on_break |-> 0, break_start_time |-> NULL]

\* check_in without the test for an existing row
check_in_unguarded(u, t) ==
    [ok |-> TRUE, shifts |-> active_shifts \cup {NewShift(u, t)}]

\* TimeTracker.check_in: False when a row exists, else insert and True.
check_in(u, t) ==
    IF HasShift(u)
    THEN [ok |-> FALSE, shifts |-> active_shifts]
    ELSE [ok |-> TRUE, shifts |-> active_shifts \cup {NewShift(u, t)}]

\* the sum without the start_time >= check_in condition
StatusMinutes_all_shifts(u, label, since) ==
    LET Hit(r) == r.user_id = u /\ r.status = label
    IN SumDuration(SelectSeq(status_logs, Hit))

\* the sum without the test of the label
StatusMinutes_any_label(u, label, since) ==
    LET Hit(r) == r.user_id = u /\ r.start_time >= since
    IN SumDuration(SelectSeq(status_logs, Hit))

\* SELECT status, SUM(duration_minutes) FROM status_logs
\* WHERE user_id = ? AND start_time >= ? GROUP BY status, one label's sum
StatusMinutes(u, label, since) ==
    LET Hit(r) == r.user_id = u /\ r.status = label /\ r.start_time >= since
    IN SumDuration(SelectSeq(status_logs, Hit))

\* the sum without the break_start >= check_in condition
BreakLogMinutes_all_shifts(u, since) ==
    LET Hit(r) == r.user_id = u
    IN SumDuration(SelectSeq(break_logs, Hit))

\* SELECT SUM(duration_minutes) FROM break_logs WHERE user_id = ? AND break_start >= ?
BreakLogMinutes(u, since) ==
    LET Hit(r) == r.user_id = u /\ r.break_start >= since
    IN SumDuration(SelectSeq(break_logs, Hit))

\* the break still open at check-out, capped
OngoingBreakMinutes(sh, t) ==
    IF sh.on_break = 1 /\ sh.break_start_time # NULL
    THEN Min(Minutes(t - sh.break_start_time), BREAK_MINUTES)
    ELSE 0

\* active = total - idle - offline - break, not below zero
ActiveMinutes(total, idle, offline, brk) == Max(0, total - idle - offline - brk)

\* the shift_history row check_out writes for shift row sh at time t
HistoryRow(sh, t) ==
    LET total == Minutes(t - sh.check_in_time)
        idle == StatusMinutes(sh.user_id, "idle", sh.check_in_time)
        offline == StatusMinutes(sh.user_id, "offline", sh.check_in_time)
        brk == OngoingBreakMinutes(sh, t) + BreakLogMinutes(sh.user_id, sh.check_in_time)
    IN [user_id |-> sh.user_id, check_in_time |-> sh.check_in_time, check_out_time |-> t,
        total_minutes |-> total, idle_minutes |-> idle, offline_minutes |-> offline,
        break_minutes |-> brk, active_minutes |-> ActiveMinutes(total, idle, offline, brk)]

\* the DELETE left out
DeleteShift_none(u) == active_shifts

\* DELETE FROM active_shifts WHERE user_id = ?
DeleteShift(u) == active_shifts \ ShiftRows(u)

\* TimeTracker.check_out: None when no row, else write the history row and
\* delete the active shift.
check_out(u, t) ==
    IF ~HasShift(u)
    THEN [ok |-> FALSE, shifts |-> active_shifts, history |-> shift_history]
    ELSE [ok |-> TRUE, shifts |-> DeleteShift(u),
          history |-> Append(shift_history, HistoryRow(ShiftOf(u), t))]

\* the UPDATE that also restarts the status period
SetBreak_restart_status(u, t) ==
    {IF s.user_id = u
     THEN [s EXCEPT !.on_break = 1, !.break_start_time = t, !.status_start_time = t]
     ELSE s : s \in active_shifts}

\* UPDATE active_shifts SET on_break = 1, break_start_time = ? WHERE user_id = ?
SetBreak(u, t) ==
    {IF s.user_id = u THEN [s EXCEPT !.on_break = 1, !.break_start_time = t] ELSE s
       : s \in active_shifts}

\* TimeTracker.start_break: None when not checked in or already on break,
\* else the time 40 minutes from now (break_end).
start_break(u, t) ==
    IF ~HasShift(u) \/ ShiftOf(u).on_break = 1
    THEN [ok |-> FALSE, shifts |-> active_shifts, break_end |-> NULL]
    ELSE [ok |-> TRUE, shifts |-> SetBreak(u, t), break_end |-> t + BREAK_MINUTES * 60]

\* the duration without the cap
BreakDuration_uncapped(break_start, t) == Minutes(t - break_start)

\* duration of a break that ends at t, capped at 40 minutes
BreakDuration(break_start, t) == Min(Minutes(t - break_start), BREAK_MINUTES)

\* the UPDATE that leaves break_start_time as it was
ClearBreak_keep_start(u) ==
    {IF s.user_id = u THEN [s EXCEPT !.on_break = 0] ELSE s : s \in active_shifts}

\* UPDATE active_shifts SET on_break = 0, break_start_time = NULL WHERE user_id = ?
ClearBreak(u) ==
    {IF s.user_id = u THEN [s EXCEPT !.on_break = 0, !.break_start_time = NULL] ELSE s
       : s \in active_shifts}

\* end_break without the on_break = 1 condition of its SELECT
end_break_any_row(u, t) ==
    IF ~HasShift(u)
    THEN [ok |-> FALSE, shifts |-> active_shifts, breaks |-> break_logs]
    ELSE [ok |-> TRUE, shifts |-> ClearBreak(u),
          breaks |-> Append(break_logs,
               [user_id |-> u, break_start |-> ShiftOf(u).break_start_time, break_end |-> t,
                duration_minutes |-> BreakDuration(ShiftOf(u).break_start_time, t)])]

\* TimeTracker.end_break: None unless a row with on_break = 1 exists; else log
\* the break and clear the flag.
end_break(u, t) ==
    LET rows == {s \in ShiftRows(u) : s.on_break = 1}
    IN IF rows = {}
       THEN [ok |-> FALSE, shifts |-> active_shifts, breaks |-> break_logs]
       ELSE LET sh == CHOOSE s \in rows : TRUE
            IN [ok |-> TRUE, shifts |-> ClearBreak(u),
                breaks |-> Append(break_logs,
                     [user_id |-> u, break_start |-> sh.break_start_time, break_end |-> t,
                      duration_minutes |-> BreakDuration(sh.break_start_time, t)])]

\* the period logged from one whole minute on
LogStatusPeriod_from_one_minute(u, old_status, status_start, t) ==
    IF Minutes(t - status_start) > 0 /\ old_status \in {"idle", "offline"}
    THEN Append(status_logs,
                [user_id |-> u, status |-> old_status, start_time |-> status_start,
                 end_time |-> t, duration_minutes |-> Minutes(t - status_start)])
    ELSE status_logs

\* the status_logs rows after the period of old_status that began at
\* status_start ends at t: logged only when idle or offline for more than 1 minute
LogStatusPeriod(u, old_status, status_start, t) ==
    IF Minutes(t - status_start) > 1 /\ old_status \in {"idle", "offline"}
    THEN Append(status_logs,
                [user_id |-> u, status |-> old_status, start_time |-> status_start,
                 end_time |-> t, duration_minutes |-> Minutes(t - status_start)])
    ELSE status_logs

\* the UPDATE without its WHERE clause
SetStatus_every_row(u, new_status, t) ==
    {[s EXCEPT !.current_status = new_status, !.status_start_time = t] : s \in active_shifts}

\* the UPDATE that leaves status_start_time as it was
SetStatus_keep_start(u, new_status, t) ==
    {IF s.user_id = u THEN [s EXCEPT !.current_status = new_status] ELSE s
       : s \in active_shifts}

\* UPDATE active_shifts SET current_status = ?, status_start_time = ? WHERE user_id = ?
SetStatus(u, new_status, t) ==
    {IF s.user_id = u THEN [s EXCEPT !.current_status = new_status, !.status_start_time = t]
     ELSE s : s \in active_shifts}

\* update_status without the test for an unchanged status
update_status_always(u, new_status, t) ==
    IF ~HasShift(u) \/ ShiftOf(u).on_break = 1
    THEN [shifts |-> active_shifts, logs |-> status_logs]
    ELSE [shifts |-> SetStatus(u, new_status, t),
          logs |-> LogStatusPeriod(u, ShiftOf(u).current_status,
                                   ShiftOf(u).status_start_time, t)]

\* TimeTracker.update_status
update_status(u, new_status, t) ==
    IF ~HasShift(u) \/ ShiftOf(u).on_break = 1 \/ ShiftOf(u).current_status = new_status
    THEN [shifts |-> active_shifts, logs |-> status_logs]
    ELSE [shifts |-> SetStatus(u, new_status, t),
          logs |-> LogStatusPeriod(u, ShiftOf(u).current_status,
                                   ShiftOf(u).status_start_time, t)]

\* the test without shift['on_break']
NoShiftOrOnBreak_no_break_test(u) == ~HasShift(u)

\* TimeTracker.get_active_shift(u) is falsy, or shift['on_break'] is true
NoShiftOrOnBreak(u) == ~HasShift(u) \/ ShiftOf(u).on_break # 0

\* The clock: time passes between handlers.
Advance(t) ==
    /\ t > now
    /\ now' = t
    /\ last' = Report("advance", 0, TRUE)
    /\ UNCHANGED <<presence, tables, timers, gates, ghosts>>

\* ------------------------------------------------------------- bot.py
Task(kind, u, due) == [kind |-> kind, user_id |-> u, due |-> due]

\* cancel_idle_warning: cancel and forget the user's idle task, if any
CancelIdleTasks(u) ==
    IF idle_timers[u] # NULL THEN tasks \ {Task("idle", u, idle_timers[u])} ELSE tasks
CancelIdleDict(u) == [idle_timers EXCEPT ![u] = NULL]

\* checkout: cancel and forget the user's break-end task, if any.  A task
\* cancelled while it sends its notice swallows the cancellation in its bare
\* except clause, finds no entry of its own to delete and ends.
CancelBreakTasks(u, ts) ==
    IF break_timers[u] # NULL
    THEN ts \ {Task("break", u, break_timers[u]), Task("break_send", u, break_timers[u])}
    ELSE ts

\* a new task created without cancelling the one in the dict
ArmIdleTasks_no_cancel(u, t) == tasks \cup {Task("idle", u, t + IDLE_WARNING_TIME)}

\* start_idle_warning: cancel the task in the dict, create a new one that
\* sleeps IDLE_WARNING_TIME and store it
ArmIdleTasks(u, t) == CancelIdleTasks(u) \cup {Task("idle", u, t + IDLE_WARNING_TIME)}
ArmIdleDict(u, t) == [idle_timers EXCEPT ![u] = t + IDLE_WARNING_TIME]

\* the anti-spam test of send_offline_warning / send_mobile_warning:
\* TRUE when the alert is suppressed
InCooldown(sent, u, t) == sent[u] # NULL /\ t - sent[u] < WARNING_COOLDOWN

\* the gate after member.send: set only when the send did not raise
GateAfterSend(sent, u, t, delivered) ==
    IF delivered THEN [sent EXCEPT ![u] = t] ELSE sent

\* the mobile-only test of on_presence_update
MobileOnly(after) ==
    /\ after.mobile_status \in {"online", "idle", "dnd"}
    /\ after.desktop_status = "offline"
    /\ after.web_status = "offline"

\* the change test of on_presence_update: web_status is not compared
PresenceChanged(before, after) ==
    \/ before.status # after.status
    \/ before.mobile_status # after.mobile_status
    \/ before.desktop_status # after.desktop_status

\* send_offline_warning is called and passes its anti-spam test
AskOffline(u, after) ==
    /\ PresenceChanged(presence[u], after) /\ ~NoShiftOrOnBreak(u)
    /\ after.status = "offline"
    /\ ~InCooldown(offline_warnings_sent, u, now)

\* send_mobile_warning is called and passes its anti-spam test
AskMobile(u, after) ==
    /\ PresenceChanged(presence[u], after) /\ ~NoShiftOrOnBreak(u)
    /\ after.status # "offline"
    /\ MobileOnly(after)
    /\ ~InCooldown(mobile_warnings_sent, u, now)

\* the test for a shift only
StillIdle_any_status(u) == HasShift(u)

\* the test send_idle_warning makes after its sleep
StillIdle(u) ==
    HasShift(u) /\ ShiftOf(u).current_status = "idle" /\ ShiftOf(u).on_break = 0

\* the update_status call dropped when the alert before it was not delivered
StatusAfterAlert_abort(u, new_status, t, delivered) ==
    IF delivered THEN update_status(u, new_status, t)
    ELSE [shifts |-> active_shifts, logs |-> status_logs]

\* the update_status call of on_presence_update: send_offline_warning and
\* send_mobile_warning catch what member.send raises, so the call is made
\* whether or not the alert was delivered
StatusAfterAlert(u, new_status, t, delivered) == update_status(u, new_status, t)

\* /checkin
CheckIn(u) ==
    LET res == check_in(u, now) IN
    /\ res.ok => Len(shift_history) + Cardinality(active_shifts) < MaxShifts
    /\ active_shifts' = res.shifts
    /\ last' = Report("checkin", u, res.ok)
    /\ quiet' = IF res.ok THEN [quiet EXCEPT ![u] = TRUE] ELSE quiet
    /\ idle_warned' = IF res.ok THEN [idle_warned EXCEPT ![u] = 0] ELSE idle_warned
    /\ UNCHANGED <<now, presence, shift_history, status_logs, break_logs, timers,
                   gates, off_first, off_count, mob_first, mob_count, checkouts>>

\* /checkout: on success cancel both timers and clear both gates
CheckOut(u) ==
    LET res == check_out(u, now) IN
    /\ active_shifts' = res.shifts
    /\ shift_history' = res.history
    /\ last' = Report("checkout", u, res.ok)
    /\ IF res.ok
       THEN /\ tasks' = CancelBreakTasks(u, CancelIdleTasks(u))
            /\ break_timers' = [break_timers EXCEPT ![u] = NULL]
            /\ idle_timers' = CancelIdleDict(u)
            /\ mobile_warnings_sent' = [mobile_warnings_sent EXCEPT ![u] = NULL]
            /\ offline_warnings_sent' = [offline_warnings_sent EXCEPT ![u] = NULL]
            /\ off_first' = [off_first EXCEPT ![u] = NULL]
            /\ off_count' = [off_count EXCEPT ![u] = 0]
            /\ mob_first' = [mob_first EXCEPT ![u] = NULL]
            /\ mob_count' = [mob_count EXCEPT ![u] = 0]
            /\ checkouts' = [checkouts EXCEPT ![u] = @ + 1]
            /\ idle_warned' = [idle_warned EXCEPT ![u] = 0]
       ELSE UNCHANGED <<timers, gates, off_first, off_count, mob_first, mob_count, checkouts, idle_warned>>
    /\ UNCHANGED <<now, presence, status_logs, break_logs, quiet>>

\* /break: on success cancel the idle warning, answer, then arm the break-end
\* task; when the answer cannot be sent (sent = FALSE) the handler's except
\* clause runs and no task is armed
TakeBreak(u, sent) ==
    LET res == start_break(u, now) IN
    /\ active_shifts' = res.shifts
    /\ last' = Report("break", u, res.ok)
    /\ quiet' = [quiet EXCEPT ![u] = FALSE]
    /\ IF res.ok
       THEN /\ idle_timers' = CancelIdleDict(u)
            /\ IF sent
               THEN /\ tasks' = CancelIdleTasks(u) \cup {Task("break", u, now + BREAK_SLEEP)}
                    /\ break_timers' = [break_timers EXCEPT ![u] = now + BREAK_SLEEP]
               ELSE /\ tasks' = CancelIdleTasks(u)
                    /\ UNCHANGED break_timers
       ELSE UNCHANGED timers
    /\ UNCHANGED <<now, presence, shift_history, status_logs, break_logs, gates,
                   idle_warned, off_first, off_count, mob_first, mob_count, checkouts>>

\* on_presence_update for member u whose presence becomes `after`;
\* `delivered` tells whether member.send of an alert succeeds
PresenceUpdate(u, after, delivered) ==
    LET before == presence[u]
        handled == PresenceChanged(before, after) /\ ~NoShiftOrOnBreak(u)
        offline == after.status = "offline"
        new_status == TRACKED_STATUSES(after.status)
        res == StatusAfterAlert(u, new_status, now, delivered)
        ask_offline == AskOffline(u, after)
        ask_mobile == AskMobile(u, after)
        first == IF off_first[u] = NULL THEN now ELSE off_first[u]
        mfirst == IF mob_first[u] = NULL THEN now ELSE mob_first[u]
    IN
    /\ after # before
    /\ presence' = [presence EXCEPT ![u] = after]
    /\ last' = Report("presence", u, handled)
    /\ quiet' = [quiet EXCEPT ![u] = FALSE]
    /\ IF handled
       THEN /\ active_shifts' = res.shifts
            /\ status_logs' = res.logs
            /\ offline_warnings_sent' =
                 IF ask_offline THEN GateAfterSend(offline_warnings_sent, u, now, delivered)
                 ELSE offline_warnings_sent
            /\ mobile_warnings_sent' =
                 IF ask_mobile THEN GateAfterSend(mobile_warnings_sent, u, now, delivered)
                 ELSE mobile_warnings_sent
            /\ tasks' = CASE offline -> tasks
                          [] new_status = "idle" -> ArmIdleTasks(u, now)
                          [] new_status = "online" -> CancelIdleTasks(u)
            /\ idle_timers' = CASE offline -> idle_timers
                                [] new_status = "idle" -> ArmIdleDict(u, now)
                                [] new_status = "online" -> CancelIdleDict(u)
            /\ idle_warned' = IF ShiftOf(u).current_status # new_status
                              THEN [idle_warned EXCEPT ![u] = 0] ELSE idle_warned
            /\ off_first' = IF offline THEN [off_first EXCEPT ![u] = first] ELSE off_first
            /\ off_count' = IF ask_offline /\ now - first < WARNING_COOLDOWN
                            THEN [off_count EXCEPT ![u] = Min(@ + 1, 2)] ELSE off_count
            /\ mob_first' = IF ask_mobile THEN [mob_first EXCEPT ![u] = mfirst] ELSE mob_first
            /\ mob_count' = IF ask_mobile /\ now - mfirst < WARNING_COOLDOWN
                            THEN [mob_count EXCEPT ![u] = Min(@ + 1, 2)] ELSE mob_count
       ELSE UNCHANGED <<active_shifts, status_logs, gates, tasks, idle_timers,
                        idle_warned, off_first, off_count, mob_first, mob_count>>
    /\ UNCHANGED <<now, shift_history, break_logs, break_timers, checkouts>>

\* send_idle_warning once its sleep is over: warn when the user is still
\* checked in, idle and not on break, then drop the user's entry of idle_timers
IdleTimerFire(u) ==
    \E t \in tasks :
      LET warn == StillIdle(u)
      IN
      /\ t.kind = "idle" /\ t.user_id = u /\ now >= t.due
      /\ tasks' = tasks \ {t}
      /\ idle_timers' = [idle_timers EXCEPT ![u] = NULL]
      /\ idle_warned' = IF warn THEN [idle_warned EXCEPT ![u] = @ + 1] ELSE idle_warned
      /\ last' = Report("idle_timer", u, warn)
      /\ UNCHANGED <<now, presence, tables, break_timers, gates,
                     off_first, off_count, mob_first, mob_count, quiet, checkouts>>

\* end_break_task once its sleep is over: end the break, then drop the user's
\* entry of break_timers
BreakTimerFire(u) ==
    \E t \in tasks :
      LET res == end_break(u, now) IN
      /\ t.kind = "break" /\ t.user_id = u /\ now >= t.due
      /\ tasks' = tasks \ {t}
      /\ break_timers' = [break_timers EXCEPT ![u] = NULL]
      /\ active_shifts' = res.shifts
      /\ break_logs' = res.breaks
      /\ last' = Report("break_timer", u, res.ok)
      /\ UNCHANGED <<now, presence, shift_history, status_logs, idle_timers, gates,
                     ghosts>>

\* The shift of one member is followed; the other members stay away.
Tracked == {1}

\* Accounting runs: presence changes on the desktop client, every alert is
\* delivered (delivery only decides the cooldown gates).
Next ==
    \/ \E t \in Instants : Advance(t)
    \/ \E u \in Tracked : CheckIn(u)
    \/ \E u \in Tracked : CheckOut(u)
    \/ \E u \in Tracked, sent \in BOOLEAN : TakeBreak(u, sent)
    \/ \E u \in Tracked, after \in DesktopPresences : PresenceUpdate(u, after, TRUE)
    \/ \E u \in Tracked : IdleTimerFire(u)
    \/ \E u \in Tracked : BreakTimerFire(u)

Spec == Init /\ [][Next]_vars

\* Alert runs: presences that differ per surface, and an alert may fail to
\* be delivered; the answer to /break is always sent.
NextAlerts ==
    \/ \E t \in Instants : Advance(t)
    \/ \E u \in Tracked : CheckIn(u)
    \/ \E u \in Tracked : CheckOut(u)
    \/ \E u \in Tracked : TakeBreak(u, TRUE)
    \/ \E u \in Tracked, after \in SurfacePresences, delivered \in BOOLEAN :
          PresenceUpdate(u, after, delivered)
    \/ \E u \in Tracked : IdleTimerFire(u)
    \/ \E u \in Tracked : BreakTimerFire(u)

SpecAlerts == Init /\ [][NextAlerts]_vars

\* Status runs: a status may last 90 s (more than one minute, less than two),
\* the member may be on do-not-disturb or on the phone only.
StatusInstants == {0, 90, 2700}

StatusPresences ==
    DesktopPresences \cup
    { Presence("dnd",    "offline", "dnd",     "offline"),
      Presence("online", "online",  "offline", "offline") }

NextStatus ==
    \/ \E t \in StatusInstants : Advance(t)
    \/ \E u \in Tracked : CheckIn(u)
    \/ \E u \in Tracked : CheckOut(u)
    \/ \E u \in Tracked : TakeBreak(u, TRUE)
    \/ \E u \in Tracked, after \in StatusPresences : PresenceUpdate(u, after, TRUE)
    \/ \E u \in Tracked : IdleTimerFire(u)
    \/ \E u \in Tracked : BreakTimerFire(u)

SpecStatus == Init /\ [][NextStatus]_vars

\* end_break_task up to its first await after the sleep: end the break; when
\* a duration came back the task goes on to send its notice, else it drops
\* the user's entry of break_timers at once
BreakTimerEnd(u) ==
    \E t \in tasks :
      LET res == end_break(u, now) IN
      /\ t.kind = "break" /\ t.user_id = u /\ now >= t.due
      /\ active_shifts' = res.shifts
      /\ break_logs' = res.breaks
      /\ last' = Report("break_timer", u, res.ok)
      /\ IF res.ok
         THEN /\ tasks' = (tasks \ {t}) \cup {Task("break_send", u, t.due)}
              /\ UNCHANGED break_timers
         ELSE /\ tasks' = tasks \ {t}
              /\ break_timers' = [break_timers EXCEPT ![u] = NULL]
      /\ UNCHANGED <<now, presence, shift_history, status_logs, idle_timers, gates,
                     ghosts>>

\* end_break_task after channel.send returned: drop the user's entry of
\* break_timers, whichever task it holds
BreakTimerDone(u) ==
    \E t \in tasks :
      /\ t.kind = "break_send" /\ t.user_id = u
      /\ tasks' = tasks \ {t}
      /\ break_timers' = [break_timers EXCEPT ![u] = NULL]
      /\ last' = Report("break_done", u, TRUE)
      /\ UNCHANGED <<now, presence, tables, idle_timers, gates, ghosts>>

\* Break runs: the break-end task is followed await by await, so that
\* commands run while it sends its notice.
BreakInstants == {0, 2400, 4800}

NextBreaks ==
    \/ \E t \in BreakInstants : Advance(t)
    \/ \E u \in Tracked : CheckIn(u)
    \/ \E u \in Tracked : CheckOut(u)
    \/ \E u \in Tracked : TakeBreak(u, TRUE)
    \/ \E u \in Tracked : BreakTimerEnd(u)
    \/ \E u \in Tracked : BreakTimerDone(u)

SpecBreaks == Init /\ [][NextBreaks]_vars

\* on_presence_update for an offline event whose alert passes the anti-spam
\* test, up to `await member.send` in send_offline_warning: the handler is
\* suspended there and holds the `now` it read for the gate
PresenceOfflineSend(u, after) ==
    LET first == IF off_first[u] = NULL THEN now ELSE off_first[u] IN
    /\ after # presence[u]
    /\ AskOffline(u, after)
    /\ presence' = [presence EXCEPT ![u] = after]
    /\ tasks' = tasks \cup {Task("offline_send", u, now)}
    /\ last' = Report("presence", u, TRUE)
    /\ quiet' = [quiet EXCEPT ![u] = FALSE]
    /\ off_first' = [off_first EXCEPT ![u] = first]
    /\ off_count' = IF now - first < WARNING_COOLDOWN
                    THEN [off_count EXCEPT ![u] = Min(@ + 1, 2)] ELSE off_count
    /\ UNCHANGED <<now, tables, break_timers, idle_timers, gates, idle_warned, checkouts,
                   mob_first, mob_count>>

\* the rest of that handler once member.send returned or raised: set the
\* gate when the alert was delivered, then update_status(offline)
OfflineSendDone(u, delivered) ==
    \E t \in tasks :
      LET res == StatusAfterAlert(u, "offline", now, delivered) IN
      /\ t.kind = "offline_send" /\ t.user_id = u
      /\ tasks' = tasks \ {t}
      /\ offline_warnings_sent' = GateAfterSend(offline_warnings_sent, u, t.due, delivered)
      /\ active_shifts' = res.shifts
      /\ status_logs' = res.logs
      /\ idle_warned' = IF res.shifts # active_shifts
                        THEN [idle_warned EXCEPT ![u] = 0] ELSE idle_warned
      /\ last' = Report("offline_sent", u, delivered)
      /\ UNCHANGED <<now, presence, shift_history, break_logs, break_timers, idle_timers,
                     mobile_warnings_sent, off_first, off_count, mob_first, mob_count, quiet, checkouts>>

\* Alerts in flight: the handler of an offline event is followed across its
\* await, so that commands run while the alert is being sent.
NextFlight ==
    \/ \E t \in Instants : Advance(t)
    \/ \E u \in Tracked : CheckIn(u)
    \/ \E u \in Tracked : CheckOut(u)
    \/ \E u \in Tracked, after \in DesktopPresences :
          ~AskOffline(u, after) /\ PresenceUpdate(u, after, TRUE)
    \/ \E u \in Tracked, after \in DesktopPresences : PresenceOfflineSend(u, after)
    \/ \E u \in Tracked, delivered \in BOOLEAN : OfflineSendDone(u, delivered)
    \/ \E u \in Tracked : IdleTimerFire(u)

SpecFlight == Init /\ [][NextFlight]_vars

\* the most presence handlers of one user followed between the read and the
\* writes of update_status at a time
MaxHandlers == 2

\* the handlers of user u that are between a read and their writes
InFlight(kind, u) == {t \in tasks : t.kind = kind /\ t.user_id = u}

\* a handled presence event that changes the tracked status
Transition(u, after) ==
    /\ PresenceChanged(presence[u], after) /\ ~NoShiftOrOnBreak(u)
    /\ ShiftOf(u).current_status # TRACKED_STATUSES(after.status)

\* on_presence_update up to the SELECT of update_status: the alerts are
\* sent, update_status has read `now` and the row (old status and its start)
\* and has yet to write
StatusRead(u, after) ==
    LET offline == after.status = "offline"
        first == IF off_first[u] = NULL THEN now ELSE off_first[u]
        mfirst == IF mob_first[u] = NULL THEN now ELSE mob_first[u]
    IN
    /\ after # presence[u]
    /\ Transition(u, after)
    /\ Cardinality(InFlight("status_write", u)) < MaxHandlers
    /\ presence' = [presence EXCEPT ![u] = after]
    /\ tasks' = tasks \cup
                  {[kind |-> "status_write", user_id |-> u, due |-> now,
                    new_status |-> TRACKED_STATUSES(after.status),
                    old_status |-> ShiftOf(u).current_status,
                    status_start |-> ShiftOf(u).status_start_time]}
    /\ offline_warnings_sent' =
         IF AskOffline(u, after) THEN GateAfterSend(offline_warnings_sent, u, now, TRUE)
         ELSE offline_warnings_sent
    /\ mobile_warnings_sent' =
         IF AskMobile(u, after) THEN GateAfterSend(mobile_warnings_sent, u, now, TRUE)
         ELSE mobile_warnings_sent
    /\ last' = Report("presence", u, TRUE)
    /\ quiet' = [quiet EXCEPT ![u] = FALSE]
    /\ off_first' = IF offline THEN [off_first EXCEPT ![u] = first] ELSE off_first
    /\ off_count' = IF AskOffline(u, after) /\ now - first < WARNING_COOLDOWN
                    THEN [off_count EXCEPT ![u] = Min(@ + 1, 2)] ELSE off_count
    /\ mob_first' = IF AskMobile(u, after) THEN [mob_first EXCEPT ![u] = mfirst] ELSE mob_first
    /\ mob_count' = IF AskMobile(u, after) /\ now - mfirst < WARNING_COOLDOWN
                    THEN [mob_count EXCEPT ![u] = Min(@ + 1, 2)] ELSE mob_count
    /\ UNCHANGED <<now, tables, break_timers, idle_timers, idle_warned, checkouts>>

\* the rest of update_status and of the handler: log the period that was
\* read, write the new status with the `now` that was read, then arm or
\* cancel the idle warning
StatusWrite(u) ==
    \E t \in tasks :
      /\ t.kind = "status_write" /\ t.user_id = u
      /\ status_logs' = LogStatusPeriod(u, t.old_status, t.status_start, t.due)
      /\ active_shifts' = SetStatus(u, t.new_status, t.due)
      /\ tasks' = (CASE t.new_status = "offline" -> tasks
                     [] t.new_status = "idle" -> ArmIdleTasks(u, now)
                     [] t.new_status = "online" -> CancelIdleTasks(u)) \ {t}
      /\ idle_timers' = CASE t.new_status = "offline" -> idle_timers
                           [] t.new_status = "idle" -> ArmIdleDict(u, now)
                           [] t.new_status = "online" -> CancelIdleDict(u)
      /\ idle_warned' = [idle_warned EXCEPT ![u] = 0]
      /\ last' = Report("status_write", u, TRUE)
      /\ UNCHANGED <<now, presence, shift_history, break_logs, break_timers, gates,
                     off_first, off_count, mob_first, mob_count, quiet, checkouts>>

\* Status races: update_status is followed from its SELECT to its writes,
\* so that another presence handler reads in between.
RaceInstants == {0, 300}

NextStatusRace ==
    \/ \E t \in RaceInstants : Advance(t)
    \/ \E u \in Tracked : CheckIn(u)
    \/ \E u \in Tracked : CheckOut(u)
    \/ \E u \in Tracked, after \in DesktopPresences :
          ~Transition(u, after) /\ PresenceUpdate(u, after, TRUE)
    \/ \E u \in Tracked, after \in DesktopPresences : StatusRead(u, after)
    \/ \E u \in Tracked : StatusWrite(u)

SpecStatusRace == Init /\ [][NextStatusRace]_vars

\* check_out up to its first SELECT: `now` and the active_shifts row are read
CheckOutRead(u) ==
    /\ HasShift(u)
    /\ Cardinality(InFlight("check_out", u)) < MaxHandlers
    /\ tasks' = tasks \cup {[kind |-> "check_out", user_id |-> u, due |-> now,
                              row |-> ShiftOf(u)]}
    /\ last' = Report("checkout_read", u, TRUE)
    /\ UNCHANGED <<now, presence, tables, break_timers, idle_timers, gates, ghosts>>

\* the rest of check_out and of /checkout: sum the logs as they are now,
\* add the break in progress of the row that was read, write the history
\* row, delete the shift, cancel the timers and clear the gates
CheckOutWrite(u) ==
    \E t \in tasks :
      /\ t.kind = "check_out" /\ t.user_id = u
      /\ shift_history' = Append(shift_history, HistoryRow(t.row, t.due))
      /\ active_shifts' = DeleteShift(u)
      /\ tasks' = CancelBreakTasks(u, CancelIdleTasks(u)) \ {t}
      /\ break_timers' = [break_timers EXCEPT ![u] = NULL]
      /\ idle_timers' = CancelIdleDict(u)
      /\ mobile_warnings_sent' = [mobile_warnings_sent EXCEPT ![u] = NULL]
      /\ offline_warnings_sent' = [offline_warnings_sent EXCEPT ![u] = NULL]
      /\ off_first' = [off_first EXCEPT ![u] = NULL]
      /\ off_count' = [off_count EXCEPT ![u] = 0]
      /\ mob_first' = [mob_first EXCEPT ![u] = NULL]
      /\ mob_count' = [mob_count EXCEPT ![u] = 0]
      /\ checkouts' = [checkouts EXCEPT ![u] = Min(@ + 1, MaxShifts + 1)]
      /\ idle_warned' = [idle_warned EXCEPT ![u] = 0]
      /\ last' = Report("checkout", u, TRUE)
      /\ UNCHANGED <<now, presence, status_logs, break_logs, quiet>>

\* Check-out races: check_out is followed from its first SELECT to its
\* writes, so that the break-end task ends the break in between.
NextCheckOutRace ==
    \/ \E t \in Instants : Advance(t)
    \/ \E u \in Tracked : CheckIn(u)
    \/ \E u \in Tracked : ~HasShift(u) /\ CheckOut(u)
    \/ \E u \in Tracked : InFlight("check_out", u) = {} /\ CheckOutRead(u)
    \/ \E u \in Tracked : CheckOutWrite(u)
    \/ \E u \in Tracked : TakeBreak(u, TRUE)
    \/ \E u \in Tracked : BreakTimerFire(u)

SpecCheckOutRace == Init /\ [][NextCheckOutRace]_vars

\* Double check-out runs: two /checkout commands of a user may both read
\* the active shift before either writes.
NextDoubleCheckOut ==
    \/ \E t \in Instants : Advance(t)
    \/ \E u \in Tracked : CheckIn(u)
    \/ \E u \in Tracked : ~HasShift(u) /\ CheckOut(u)
    \/ \E u \in Tracked : CheckOutRead(u)
    \/ \E u \in Tracked : CheckOutWrite(u)

SpecDoubleCheckOut == Init /\ [][NextDoubleCheckOut]_vars

\* what /checkin reports: ok as check_in returned it, raised when check_in
\* raised and the handler's except clause answered
CheckInReport(u, ok, raised) == [op |-> "checkin", user |-> u, ok |-> ok, raised |-> raised]

\* check_in up to its SELECT, which found no row: the INSERT is yet to run
CheckInRead(u) ==
    /\ ~HasShift(u)
    /\ Cardinality(InFlight("check_in", u)) < MaxHandlers
    /\ tasks' = tasks \cup {Task("check_in", u, now)}
    /\ last' = Report("checkin_read", u, TRUE)
    /\ UNCHANGED <<now, presence, tables, break_timers, idle_timers, gates, ghosts>>

\* the INSERT of check_in and the answer of /checkin: user_id is the primary
\* key of active_shifts, so the INSERT raises sqlite3.IntegrityError when a
\* row of the user exists by now, and the handler answers with its error embed
CheckInWrite(u) ==
    \E t \in tasks :
      LET raised == HasShift(u) IN
      /\ t.kind = "check_in" /\ t.user_id = u
      /\ ~raised => Len(shift_history) + Cardinality(active_shifts) < MaxShifts
      /\ tasks' = tasks \ {t}
      /\ active_shifts' = IF raised THEN active_shifts
                          ELSE active_shifts \cup {NewShift(u, t.due)}
      /\ last' = CheckInReport(u, ~raised, raised)
      /\ quiet' = IF raised THEN quiet ELSE [quiet EXCEPT ![u] = TRUE]
      /\ idle_warned' = IF raised THEN idle_warned ELSE [idle_warned EXCEPT ![u] = 0]
      /\ UNCHANGED <<now, presence, shift_history, status_logs, break_logs,
                     break_timers, idle_timers, gates, off_first, off_count, mob_first, mob_count, checkouts>>

\* Double check-in runs: two /checkin commands of a user may both run the
\* SELECT before either inserts.
NextDoubleCheckIn ==
    \/ \E t \in Instants : Advance(t)
    \/ \E u \in Tracked : HasShift(u) /\ CheckIn(u)
    \/ \E u \in Tracked : CheckInRead(u)
    \/ \E u \in Tracked : CheckInWrite(u)
    \/ \E u \in Tracked : CheckOut(u)

SpecDoubleCheckIn == Init /\ [][NextDoubleCheckIn]_vars

\* Mobile runs: the member may be on the phone only (online or idle), and
\* an alert may fail to be delivered.
MobilePresences ==
    DesktopPresences \cup
    { Presence("online", "online", "offline", "offline"),
      Presence("idle",   "idle",   "offline", "offline") }

\* 2700 s after the start the cooldown window of an alert sent at 0 is over
MobileInstants == {0, 2700}

NextMobile ==
    \/ \E t \in MobileInstants : Advance(t)
    \/ \E u \in Tracked : CheckIn(u)
    \/ \E u \in Tracked : CheckOut(u)
    \/ \E u \in Tracked, after \in MobilePresences, delivered \in BOOLEAN :
          PresenceUpdate(u, after, delivered)
    \/ \E u \in Tracked : IdleTimerFire(u)

SpecMobile == Init /\ [][NextMobile]_vars

\* Two-member runs: the shift of member 1 is followed in full (presence,
\* break, timers firing, check-out); member 2 checks in and changes
\* presence meanwhile.
Colleague == Users \ Tracked

NextMembers ==
    \/ \E t \in MobileInstants : Advance(t)
    \/ \E u \in Users : CheckIn(u)
    \/ \E u \in Tracked : HasShift(u) /\ CheckOut(u)
    \/ \E u \in Tracked : HasShift(u) /\ TakeBreak(u, TRUE)
    \/ \E u \in Tracked, after \in DesktopPresences :
          HasShift(u) /\ PresenceUpdate(u, after, TRUE)
    \/ \E u \in Colleague, after \in DesktopPresences :
          HasShift(u) /\ PresenceUpdate(u, after, TRUE)
    \/ \E u \in Tracked : IdleTimerFire(u)
    \/ \E u \in Tracked : BreakTimerFire(u)

SpecMembers == Init /\ [][NextMembers]_vars

\* Presence runs: the member checks in while online, so that the status
\* check_in writes agrees with the presence last delivered, and presence
\* events arrive at any time, also during a break.
NextPresence ==
    \/ \E t \in Instants : Advance(t)
    \/ \E u \in Tracked : presence[u].status = "online" /\ CheckIn(u)
    \/ \E u \in Tracked : CheckOut(u)
    \/ \E u \in Tracked : TakeBreak(u, TRUE)
    \/ \E u \in Tracked, after \in DesktopPresences : PresenceUpdate(u, after, TRUE)
    \/ \E u \in Tracked : IdleTimerFire(u)
    \/ \E u \in Tracked : BreakTimerFire(u)

SpecPresence == Init /\ [][NextPresence]_vars

\* ------------------------------------------------------- query commands
\* str(user) of the two members; "zoe" sorts after "adam"
Username(u) == IF u = 1 THEN "zoe" ELSE "adam"

\* what a query command answers: its argument and its output
Reply(op, u, ok, days, out) ==
    [op |-> op, user |-> u, ok |-> ok, days |-> days, out |-> out]

RECURSIVE SumField(_, _)
SumField(rows, f) ==
    IF rows = <<>> THEN 0 ELSE Head(rows)[f] + SumField(Tail(rows), f)

\* minutes / 60 as a float: the fraction minutes over 60
Hours(minutes) == <<minutes, 60>>

\* get_user_stats without the user_id condition
get_user_stats_all_users(u, days, t) ==
    LET Hit(r) == r.check_in_time >= t - days * 86400
        rows == SelectSeq(shift_history, Hit)
    IN [shifts |-> Len(rows),
        total_hours |-> Hours(SumField(rows, "total_minutes")),
        active_hours |-> Hours(SumField(rows, "active_minutes")),
        idle_hours |-> Hours(SumField(rows, "idle_minutes")),
        offline_hours |-> Hours(SumField(rows, "offline_minutes")),
        break_hours |-> Hours(SumField(rows, "break_minutes"))]

\* TimeTracker.get_user_stats: COUNT and SUMs over the user's shift_history
\* rows with check_in_time >= now - days
get_user_stats(u, days, t) ==
    LET Hit(r) == r.user_id = u /\ r.check_in_time >= t - days * 86400
        rows == SelectSeq(shift_history, Hit)
    IN [shifts |-> Len(rows),
        total_hours |-> Hours(SumField(rows, "total_minutes")),
        active_hours |-> Hours(SumField(rows, "active_minutes")),
        idle_hours |-> Hours(SumField(rows, "idle_minutes")),
        offline_hours |-> Hours(SumField(rows, "offline_minutes")),
        break_hours |-> Hours(SumField(rows, "break_minutes"))]

\* /mystats: the overall statistics of the last `days` days
UserStats(u, days) ==
    /\ last' = Reply("mystats", u, TRUE, days, get_user_stats(u, days, now))
    /\ UNCHANGED <<now, presence, tables, timers, gates, ghosts>>

\* the calendar day of an instant; instant 0 is 09:00, so that the PKT date
\* of datetime.now(PKT).date() and the UTC date of SQLite's DATE() agree
Date(t) == (32400 + t) \div 86400

\* the rows get_weekly_report_data selects for the leaderboard of `days` days
ReportRows(u, days, t) ==
    LET Hit(r) == /\ r.user_id = u
                  /\ Date(r.check_in_time) >= Date(t) - (days - 1)
                  /\ Date(r.check_in_time) <= Date(t)
    IN SelectSeq(shift_history, Hit)

\* one employee of get_weekly_report_data: GROUP BY user_id, username
Employee(u, days, t) ==
    [user_id |-> u, username |-> Username(u),
     total_min |-> SumField(ReportRows(u, days, t), "total_minutes"),
     active_min |-> SumField(ReportRows(u, days, t), "active_minutes")]

\* productivity_score of e is at least that of f: active/total*100, 0 when
\* total is 0, compared as fractions
ScoreNum(e) == IF e.total_min > 0 THEN e.active_min ELSE 0
ScoreDen(e) == IF e.total_min > 0 THEN e.total_min ELSE 1
ScoreAtLeast(e, f) == ScoreNum(e) * ScoreDen(f) >= ScoreNum(f) * ScoreDen(e)

\* the orders in which ORDER BY active_min DESC may return the employees:
\* rows with equal active_min come in any order
SqlOrders(days, t) ==
    LET emps == {Employee(u, days, t) : u \in {v \in Users : ReportRows(v, days, t) # <<>>}}
        n == Cardinality(emps)
    IN {sq \in [1 .. n -> emps] :
          /\ \A i, j \in 1 .. n : i # j => sq[i] # sq[j]
          /\ \A i, j \in 1 .. n : i < j => sq[i].active_min >= sq[j].active_min}

\* insertion of e behind every element whose score is at least e's
InsertByScore(sorted, e) ==
    LET ahead == {i \in DOMAIN sorted : ScoreAtLeast(sorted[i], e)}
        k == IF ahead = {} THEN 0 ELSE CHOOSE i \in ahead : \A j \in ahead : j <= i
    IN SubSeq(sorted, 1, k) \o <<e>> \o SubSeq(sorted, k + 1, Len(sorted))

\* sorted(employees, key = productivity_score, reverse = True): stable,
\* employees with equal score keep the order they came in
RECURSIVE SortedByScore(_, _)
SortedByScore(sorted, rest) ==
    IF rest = <<>> THEN sorted
    ELSE SortedByScore(InsertByScore(sorted, Head(rest)), Tail(rest))

\* /leaderboard
Leaderboard(days) ==
    /\ \E sq \in SqlOrders(days, now) :
          last' = Reply("leaderboard", 0, TRUE, days, SortedByScore(<<>>, sq))
    /\ UNCHANGED <<now, presence, tables, timers, gates, ghosts>>

\* whoisin's field for one shift.  For a shift on break it computes
\* datetime.utcnow() - shift['break_start'], a naive datetime minus an aware
\* one, which raises TypeError before `remaining` is computed.
WhoisinField(sh, t) ==
    IF sh.on_break = 1 /\ sh.break_start_time # NULL
    THEN [user_id |-> sh.user_id, raised |-> TRUE, status |-> "break", remaining |-> NULL]
    ELSE [user_id |-> sh.user_id, raised |-> FALSE, status |-> sh.current_status,
          remaining |-> NULL]

\* /whoisin: the fields of all active shifts, or the error message when
\* building a field raised
Whoisin ==
    LET fields == {WhoisinField(sh, now) : sh \in active_shifts}
        raised == \E f \in fields : f.raised
    IN /\ last' = Reply("whoisin", 0, ~raised, 0, IF raised THEN {} ELSE fields)
       /\ UNCHANGED <<now, presence, tables, timers, gates, ghosts>>

\* Query runs: two members work shifts and take breaks, and the query
\* commands are asked in between.
QueryDays == {0, 1}

NextQueries ==
    \/ \E t \in Instants : Advance(t)
    \/ \E u \in Users : CheckIn(u)
    \/ \E u \in Users : CheckOut(u)
    \/ \E u \in Users : TakeBreak(u, TRUE)
    \/ \E u \in Users : BreakTimerFire(u)
    \/ \E u \in Users, days \in QueryDays : UserStats(u, days)
    \/ \E days \in QueryDays : Leaderboard(days)
    \/ Whoisin

SpecQueries == Init /\ [][NextQueries]_vars

\* Idle runs: presence events arrive 90 s into the idle-warning delay and at
\* its end; no breaks.
IdleInstants == {0, 90, 300}

NextIdle ==
    \/ \E t \in IdleInstants : Advance(t)
    \/ \E u \in Tracked : CheckIn(u)
    \/ \E u \in Tracked : CheckOut(u)
    \/ \E u \in Tracked, after \in SurfacePresences : PresenceUpdate(u, after, TRUE)
    \/ \E u \in Tracked : IdleTimerFire(u)

SpecIdle == Init /\ [][NextIdle]_vars

\* Break liveness: time passes and a break-end task whose sleep is over
\* runs; the answer to /break may fail to be sent.  A break is started only
\* while the instants still reach the end of the task's sleep.
NextBreakEnds ==
    \/ \E t \in Instants : Advance(t)
    \/ \E u \in Tracked : CheckIn(u)
    \/ \E u \in Tracked : CheckOut(u)
    \/ \E u \in Tracked, sent \in BOOLEAN :
          /\ \E t \in Instants : t >= now + BREAK_SLEEP
          /\ TakeBreak(u, sent)
    \/ \E u \in Tracked : BreakTimerFire(u)

SpecBreakEnds ==
    /\ Init /\ [][NextBreakEnds]_vars
    /\ WF_vars(\E t \in Instants : Advance(t))
    /\ \A u \in Tracked : WF_vars(BreakTimerFire(u))

\* ------------------------------------------------------------ properties
Range(rows) == {rows[i] : i \in DOMAIN rows}
LastRow(rows) == rows[Len(rows)]
RowsOf(rows, u) == {i \in DOMAIN rows : rows[i].user_id = u}

\* the sum of duration_minutes over the rows at the indices idx
RECURSIVE SumAt(_, _)
SumAt(rows, idx) ==
    IF idx = {} THEN 0
    ELSE LET i == CHOOSE j \in idx : TRUE
         IN rows[i].duration_minutes + SumAt(rows, idx \ {i})

\* a step of handler op for user u
Ran(op, u) == last'.op = op /\ last'.user = u

OneShiftPerUser == \A u \in Users : Cardinality(ShiftRows(u)) <= 1

\* C1: there is at most one ActiveShift per user id, and a check-in of a user
\* who has an ActiveShift fails and leaves the ActiveShift and the
\* StatusInterval, BreakInterval and ShiftHistory rows unchanged.
C1_OneActiveShift ==
    /\ OneShiftPerUser
    /\ [][/\ OneShiftPerUser'
          /\ \A u \in Users :
               Ran("checkin", u) /\ HasShift(u) => ~last'.ok /\ UNCHANGED tables]_vars

\* a check-in was refused for a user who is idle in a shift with a logged interval
C1_Witness ==
    /\ last = Report("checkin", 1, FALSE)
    /\ HasShift(1) /\ ShiftOf(1).current_status = "idle"
    /\ status_logs # <<>>

\* C2: every ShiftHistory row has its four categories >= 0 and
\* active + idle + offline + break equal to total within 1 minute per category.
C2_CategoriesSumToTotal ==
    \A r \in Range(shift_history) :
        /\ r.active_minutes >= 0 /\ r.idle_minutes >= 0
        /\ r.offline_minutes >= 0 /\ r.break_minutes >= 0
        /\ r.active_minutes + r.idle_minutes + r.offline_minutes + r.break_minutes
             - r.total_minutes \in -4 .. 4

\* C3: no minute is counted twice: no StatusInterval covers a BreakInterval of
\* the same user, and in every ShiftHistory row idle + offline + break does
\* not exceed total.
C3_NoDoubleCounting ==
    /\ \A s \in Range(status_logs), b \in Range(break_logs) :
          s.user_id = b.user_id /\ b.duration_minutes > 0
             => ~(s.start_time <= b.break_start /\ b.break_end <= s.end_time)
    /\ \A r \in Range(shift_history) :
          r.idle_minutes + r.offline_minutes + r.break_minutes <= r.total_minutes

\* C4: no two StatusInterval rows of the same user overlap in time, rows of
\* different shifts included.
C4_NoOverlap ==
    \A i, j \in DOMAIN status_logs :
        i < j /\ status_logs[i].user_id = status_logs[j].user_id
          => \/ status_logs[i].end_time <= status_logs[j].start_time
             \/ status_logs[j].end_time <= status_logs[i].start_time

\* two intervals of one user, one in a finished shift and one in a later shift
C4_Witness ==
    /\ Len(status_logs) = 2 /\ shift_history # <<>>
    /\ status_logs[1].user_id = status_logs[2].user_id
    /\ status_logs[1].end_time <= shift_history[1].check_out_time
    /\ status_logs[2].start_time >= shift_history[1].check_out_time

\* C5: every BreakInterval row has duration_minutes <= 40, and check-out adds
\* at most 40 minutes for a break in progress, however late it runs.
C5_BreakCapped ==
    [][/\ \A r \in Range(break_logs') : r.duration_minutes <= BREAK_MINUTES
       /\ \A u \in Users :
            Ran("checkout", u) /\ last'.ok =>
               LastRow(shift_history').break_minutes
                  - SumAt(break_logs, {i \in RowsOf(break_logs, u) :
                                          break_logs[i].break_start >= ShiftOf(u).check_in_time})
                 <= BREAK_MINUTES]_vars

\* a break ended by a timer that fired later than 40 minutes after its start
C5_Witness ==
    \E r \in Range(break_logs) :
        r.break_end - r.break_start > BREAK_SLEEP /\ r.duration_minutes = BREAK_MINUTES

\* C6: at most one idle warning is emitted between a transition of the tracked
\* status to idle and the next transition away from idle, and at most one
\* idle-warning timer is pending for a user.
C6_OneWarningPerIdleEpisode ==
    \A u \in Users :
        /\ idle_warned[u] <= 1
        /\ Cardinality({t \in tasks : t.kind = "idle" /\ t.user_id = u}) <= 1

\* C7: the offline events of one shift that arrive less than the cooldown
\* window after the first one produce exactly one offline-alert request.
C7_OneOfflineAlertPerWindow ==
    \A u \in Users : off_first[u] # NULL => off_count[u] = 1

\* C8: a check-out without an ActiveShift fails and changes no table, timer or
\* gate; a check-out with one writes exactly one ShiftHistory row and deletes
\* the ActiveShift; the ShiftHistory rows of a user are as many as the user's
\* successful check-outs.
C8_CheckOut ==
    [][/\ \A u \in Users : Cardinality(RowsOf(shift_history', u)) = checkouts'[u]
       /\ \A u \in Users :
            Ran("checkout", u) =>
               IF HasShift(u)
               THEN /\ last'.ok
                    /\ Len(shift_history') = Len(shift_history) + 1
                    /\ SubSeq(shift_history', 1, Len(shift_history)) = shift_history
                    /\ LastRow(shift_history').user_id = u
                    /\ ShiftRows(u)' = {}
               ELSE ~last'.ok /\ UNCHANGED <<tables, timers, gates>>]_vars

\* a check-out was refused after an earlier one had succeeded
C8_Witness ==
    /\ last = Report("checkout", 1, FALSE)
    /\ shift_history # <<>>

\* C9: the row written by check-out has total = whole minutes since check-in,
\* idle and offline = the sums of the user's StatusInterval rows of that label
\* with start >= check_in, break = the sum of the user's BreakInterval rows
\* with start >= check_in plus min(elapsed, 40) of a break in progress, and
\* active = max(0, total - idle - offline - break).
C9_HistoryRow ==
    [][\A u \in Users :
         Ran("checkout", u) /\ last'.ok =>
            LET sh == ShiftOf(u)
                row == LastRow(shift_history')
                Logged(label) ==
                    SumAt(status_logs, {i \in RowsOf(status_logs, u) :
                                          /\ status_logs[i].status = label
                                          /\ status_logs[i].start_time >= sh.check_in_time})
                Breaks ==
                    SumAt(break_logs, {i \in RowsOf(break_logs, u) :
                                          break_logs[i].break_start >= sh.check_in_time})
                Ongoing ==
                    IF sh.on_break = 1
                    THEN Min((now - sh.break_start_time) \div 60, 40) ELSE 0
            IN /\ row.total_minutes = (now - sh.check_in_time) \div 60
               /\ row.idle_minutes = Logged("idle")
               /\ row.offline_minutes = Logged("offline")
               /\ row.break_minutes = Breaks + Ongoing
               /\ row.active_minutes =
                    Max(0, row.total_minutes - row.idle_minutes - row.offline_minutes
                             - row.break_minutes)]_vars

\* a check-out wrote a row with idle, offline and break minutes
C9_Witness ==
    /\ last = Report("checkout", 1, TRUE)
    /\ LastRow(shift_history).idle_minutes > 0
    /\ LastRow(shift_history).offline_minutes > 0
    /\ LastRow(shift_history).break_minutes > 0

\* C10: a shift without presence change and without break is checked out with
\* idle = 0, offline = 0, break = 0 and active = total, whatever rows the user
\* has from earlier shifts.
C10_QuietShift ==
    \A u \in Users :
        last = Report("checkout", u, TRUE) /\ quiet[u] =>
            LET row == LastRow(shift_history)
            IN /\ row.idle_minutes = 0 /\ row.offline_minutes = 0
               /\ row.break_minutes = 0
               /\ row.active_minutes = row.total_minutes

\* a quiet shift of 40 minutes checked out by a user with rows of an earlier shift
C10_Witness ==
    /\ last = Report("checkout", 1, TRUE) /\ quiet[1]
    /\ status_logs # <<>>
    /\ LastRow(shift_history).total_minutes = 40

\* C11: a handled presence change that ends an idle or offline status which
\* lasted more than 1 minute (60 s) appends exactly one StatusInterval row
\* with the old label, start = status start, end = now and duration = the
\* whole minutes between them; one that lasted 1 minute or less appends no
\* row; either way the ActiveShift gets current_status = the new category
\* and status_start = now.
C11_ClosePeriod ==
    [][\A u \in Users :
         /\ Ran("presence", u) /\ last'.ok
         /\ ShiftOf(u).current_status \in {"idle", "offline"}
         /\ TRACKED_STATUSES(presence'[u].status) # ShiftOf(u).current_status
         => LET sh == ShiftOf(u)
                row == [user_id |-> u, status |-> sh.current_status,
                        start_time |-> sh.status_start_time, end_time |-> now,
                        duration_minutes |-> (now - sh.status_start_time) \div 60]
            IN /\ status_logs' = IF now - sh.status_start_time > 60
                                 THEN Append(status_logs, row) ELSE status_logs
               /\ ShiftRows(u)' =
                     {[sh EXCEPT !.current_status = TRACKED_STATUSES(presence'[u].status),
                                 !.status_start_time = now]}]_vars

\* C12: /break of a user without ActiveShift or already on break fails and
\* changes no table, timer or gate; otherwise it sets on_break and
\* break_start = now, leaves every other field of the ActiveShift and all
\* rows as they were, and returns now + 40 minutes.
C12_StartBreak ==
    [][\A u \in Users :
         Ran("break", u) =>
            IF ~HasShift(u) \/ ShiftOf(u).on_break = 1
            THEN /\ ~last'.ok
                 /\ start_break(u, now).break_end = NULL
                 /\ UNCHANGED <<tables, timers, gates>>
            ELSE /\ last'.ok
                 /\ start_break(u, now).break_end = now + 40 * 60
                 /\ ShiftRows(u)' =
                       {[ShiftOf(u) EXCEPT !.on_break = 1, !.break_start_time = now]}
                 /\ UNCHANGED <<shift_history, status_logs, break_logs>>]_vars

\* a break was started by a user who had been idle for some time
C12_Witness ==
    /\ last = Report("break", 1, TRUE)
    /\ ShiftOf(1).current_status = "idle"
    /\ ShiftOf(1).status_start_time < ShiftOf(1).break_start_time

\* C13: end_break called for a user who is on break appends exactly one
\* BreakInterval (the break's start, end = now) and clears on_break and
\* break_start; called for a user who is not on break it fails, appends no
\* BreakInterval and changes no table.
C13_EndBreakOnce ==
    [][\A u \in Users :
         Ran("break_timer", u) =>
            IF HasShift(u) /\ ShiftOf(u).on_break = 1
            THEN /\ last'.ok
                 /\ Len(break_logs') = Len(break_logs) + 1
                 /\ SubSeq(break_logs', 1, Len(break_logs)) = break_logs
                 /\ LastRow(break_logs').user_id = u
                 /\ LastRow(break_logs').break_start = ShiftOf(u).break_start_time
                 /\ LastRow(break_logs').break_end = now
                 /\ ShiftRows(u)' =
                       {[ShiftOf(u) EXCEPT !.on_break = 0, !.break_start_time = NULL]}
                 /\ UNCHANGED <<shift_history, status_logs>>
            ELSE ~last'.ok /\ UNCHANGED tables]_vars

\* a break-end task called end_break for a checked-in user who was not on
\* break, after a break of that user had been ended and logged
C13_Witness ==
    /\ last = Report("break_timer", 1, FALSE)
    /\ HasShift(1)
    /\ \E r \in Range(break_logs) : r.user_id = 1

BreakFieldsAgree ==
    \A s \in active_shifts :
        /\ s.on_break \in {0, 1}
        /\ s.on_break = 1 => s.break_start_time # NULL
        /\ s.on_break = 0 => s.break_start_time = NULL

\* C14: an ActiveShift with on_break true has break_start set and one with
\* on_break false has it empty, and a presence event for a user on break
\* leaves the user's ActiveShift (current_status and status_start included)
\* as it was.
C14_BreakFreezesStatus ==
    /\ BreakFieldsAgree
    /\ [][/\ BreakFieldsAgree'
          /\ \A u \in Users :
               Ran("presence", u) /\ HasShift(u) /\ ShiftOf(u).on_break = 1
                  => ShiftRows(u)' = ShiftRows(u)]_vars

\* the member went idle while on break after an earlier break had ended
C14_Witness ==
    /\ last.op = "presence" /\ last.user = 1
    /\ HasShift(1) /\ ShiftOf(1).on_break = 1
    /\ presence[1].status = "idle" /\ ShiftOf(1).current_status = "online"
    /\ break_logs # <<>>

\* C15: a presence event for a user who has no ActiveShift or is on break
\* is not handled: no table, no timer and no gate changes, and neither the
\* offline nor the mobile alert is requested.
C15_IgnoredPresence ==
    [][\A u \in Users :
         Ran("presence", u) /\ (~HasShift(u) \/ ShiftOf(u).on_break = 1) =>
            /\ ~last'.ok
            /\ UNCHANGED <<tables, timers, gates>>
            /\ ~AskOffline(u, presence'[u]) /\ ~AskMobile(u, presence'[u])]_vars

\* the member on break appeared on the phone only
C15_Witness ==
    /\ last = Report("presence", 1, FALSE)
    /\ HasShift(1) /\ ShiftOf(1).on_break = 1
    /\ presence[1].mobile_status = "online" /\ presence[1].desktop_status = "offline"

\* C16: a presence change whose category (dnd counts as online) equals the
\* tracked status of the ActiveShift writes nothing: the ActiveShift keeps
\* current_status and status_start and no StatusInterval row is added.
C16_SameCategoryNoOp ==
    [][\A u \in Users :
         LET Category(st) == IF st = "dnd" THEN "online" ELSE st IN
         Ran("presence", u) /\ HasShift(u)
            /\ Category(presence'[u].status) = ShiftOf(u).current_status
            => UNCHANGED <<active_shifts, status_logs>>]_vars

\* the member switched to do-not-disturb some time after the online period began
C16_Witness ==
    /\ last = Report("presence", 1, TRUE)
    /\ presence[1].status = "dnd"
    /\ ShiftOf(1).current_status = "online" /\ ShiftOf(1).status_start_time < now

IdleTasks(u) == {t \in tasks : t.kind = "idle" /\ t.user_id = u}

\* C17: whenever an idle-warning timer is pending for a user, the user has an
\* ActiveShift whose tracked status is idle and which is not on break.
C17_IdleTimerOnlyWhileIdle ==
    \A u \in Users :
        IdleTasks(u) # {} =>
            /\ HasShift(u)
            /\ ShiftOf(u).current_status = "idle"
            /\ ShiftOf(u).on_break = 0

\* C18: an idle-warning task that fires emits the warning only if the user
\* then has an ActiveShift with tracked status idle and on_break false;
\* otherwise it emits nothing.
C18_WarningRevalidated ==
    [][\A u \in Users :
         Ran("idle_timer", u) =>
            LET idle == /\ ShiftRows(u) # {}
                        /\ \A s \in ShiftRows(u) : s.current_status = "idle" /\ s.on_break = 0
            IN /\ last'.ok <=> idle
               /\ idle_warned'[u] = idle_warned[u] + (IF idle THEN 1 ELSE 0)
               /\ UNCHANGED tables]_vars

\* a task whose cancellation was missed fired while the user was offline
\* and emitted nothing
C18_Witness ==
    /\ last = Report("idle_timer", 1, FALSE)
    /\ HasShift(1) /\ ShiftOf(1).current_status = "offline"
    /\ idle_warned[1] = 0

IdleTimerTable ==
    \A u \in Users :
        /\ Cardinality(IdleTasks(u)) <= 1
        /\ IdleTasks(u) = IF idle_timers[u] = NULL THEN {}
                          ELSE {[kind |-> "idle", user_id |-> u, due |-> idle_timers[u]]}

\* C19: at most one idle-warning task is pending per user and it is the one
\* the timer table holds: arming replaces the pending task and its entry,
\* and a task that finishes removes itself and its own entry only.
C19_OneIdleTimer ==
    /\ IdleTimerTable
    /\ [][/\ IdleTimerTable'
          /\ \A u \in Users :
               Ran("idle_timer", u) =>
                  /\ idle_timers[u] # NULL
                  /\ tasks' = tasks \ {[kind |-> "idle", user_id |-> u, due |-> idle_timers[u]]}
                  /\ idle_timers'[u] = NULL]_vars

\* the idle period began at 0 and no warning was emitted, yet the pending
\* task is due at 600: the task armed at 0 was replaced at 300
C19_Witness ==
    /\ HasShift(1) /\ ShiftOf(1).current_status = "idle"
    /\ ShiftOf(1).status_start_time = 0
    /\ idle_warned[1] = 0
    /\ idle_timers[1] = 600
    /\ Cardinality(IdleTasks(1)) = 1

NoBreakTaskWithoutShift ==
    \A u \in Users :
        ~HasShift(u) => {t \in tasks : t.kind = "break" /\ t.user_id = u} = {}

\* C20: a user without ActiveShift (before the first check-in, after a
\* check-out) has no break-end task pending, and a break-end task that ends
\* a break was armed during the shift the break belongs to.
C20_NoBreakTimerAfterCheckOut ==
    /\ NoBreakTaskWithoutShift
    /\ [][/\ NoBreakTaskWithoutShift'
          /\ \A u \in Users :
               Ran("break_timer", u) /\ last'.ok =>
                  \A t \in tasks \ tasks' :
                     t.due - BREAK_SLEEP >= ShiftOf(u).check_in_time]_vars

\* C22: the tables after a handled presence event are those of the status
\* transition alone, whether or not the alert of the event was delivered:
\* an unchanged category writes nothing, a changed one sets current_status
\* and status_start = now and appends the row update_status logs.
C22_DeliveryIndependent ==
    [][\A u \in Users :
         Ran("presence", u) /\ last'.ok =>
            LET sh == ShiftOf(u)
                cat == IF presence'[u].status = "dnd" THEN "online" ELSE presence'[u].status
                mins == (now - sh.status_start_time) \div 60
                row == [user_id |-> u, status |-> sh.current_status,
                        start_time |-> sh.status_start_time, end_time |-> now,
                        duration_minutes |-> mins]
            IN /\ UNCHANGED <<shift_history, break_logs>>
               /\ IF cat = sh.current_status
                  THEN UNCHANGED <<active_shifts, status_logs>>
                  ELSE /\ ShiftRows(u)' =
                            {[sh EXCEPT !.current_status = cat, !.status_start_time = now]}
                       /\ status_logs' =
                            IF mins > 1 /\ sh.current_status \in {"idle", "offline"}
                            THEN Append(status_logs, row) ELSE status_logs]_vars

\* the member went offline after an idle period that was logged, and the
\* offline alert was requested but not delivered (the gate is still empty)
C22_Witness ==
    /\ last = Report("presence", 1, TRUE)
    /\ ShiftOf(1).current_status = "offline" /\ ShiftOf(1).status_start_time = now
    /\ offline_warnings_sent[1] = NULL
    /\ status_logs # <<>> /\ LastRow(status_logs).end_time = now

\* C23: a check-out while an idle or offline status is open (and no break
\* is) counts the open status, status_start to now in whole minutes, in the
\* idle or offline minutes of the ShiftHistory row on top of the logged
\* rows, and persists no StatusInterval row for it.
C23_OpenStatusCounted ==
    [][\A u \in Users :
         /\ Ran("checkout", u) /\ last'.ok
         /\ ShiftOf(u).on_break = 0
         /\ ShiftOf(u).current_status \in {"idle", "offline"}
         => LET sh == ShiftOf(u)
                row == LastRow(shift_history')
                open == (now - sh.status_start_time) \div 60
                Logged(label) ==
                    SumAt(status_logs, {i \in RowsOf(status_logs, u) :
                                          /\ status_logs[i].status = label
                                          /\ status_logs[i].start_time >= sh.check_in_time})
                Open(label) == IF sh.current_status = label THEN open ELSE 0
            IN /\ status_logs' = status_logs
               /\ row.idle_minutes = Logged("idle") + Open("idle")
               /\ row.offline_minutes = Logged("offline") + Open("offline")]_vars

\* C27: when a user has been idle, checked in and off break for the warning
\* delay (300 s) since the transition to idle and no warning has been
\* emitted yet, an idle-warning task whose sleep is over is pending, so the
\* warning is emitted as soon as that task runs.
C27_WarningAfterDelay ==
    \A u \in Users :
        /\ HasShift(u) /\ ShiftOf(u).current_status = "idle" /\ ShiftOf(u).on_break = 0
        /\ now - ShiftOf(u).status_start_time >= 300
        /\ idle_warned[u] = 0
        => \E t \in IdleTasks(u) : t.due <= now

\* C28: a user who is on break is eventually not on break (the break-end
\* task ended the break or the shift was checked out), and a break ended by
\* its task is ended no earlier than 40 minutes after it started.
C28_BreakEnds ==
    /\ \A u \in Tracked :
          (HasShift(u) /\ ShiftOf(u).on_break = 1)
             ~> (~HasShift(u) \/ ShiftOf(u).on_break = 0)
    /\ [][\A u \in Users :
            Ran("break_timer", u) /\ last'.ok =>
               now - ShiftOf(u).break_start_time >= 40 * 60]_vars

\* C24: the leaderboard lists the employees by descending productivity
\* score (active/total, 0 when total is 0), and employees with equal score
\* in username order.
C24_LeaderboardOrder ==
    last.op = "leaderboard" =>
        LET out == last.out
            Num(e) == IF e.total_min > 0 THEN e.active_min ELSE 0
            Den(e) == IF e.total_min > 0 THEN e.total_min ELSE 1
            Rank(name) == IF name = "adam" THEN 1 ELSE 2
        IN \A i, j \in DOMAIN out :
              i < j =>
                 /\ Num(out[i]) * Den(out[j]) >= Num(out[j]) * Den(out[i])
                 /\ Num(out[i]) * Den(out[j]) = Num(out[j]) * Den(out[i])
                       => Rank(out[i].username) < Rank(out[j].username)

\* the sum of field f over the rows at the indices idx
RECURSIVE SumFieldAt(_, _, _)
SumFieldAt(rows, idx, f) ==
    IF idx = {} THEN 0
    ELSE LET i == CHOOSE j \in idx : TRUE
         IN rows[i][f] + SumFieldAt(rows, idx \ {i}, f)

\* C25: the statistics of a user over `days` days are the count and the
\* sums (in hours, minutes / 60) of total, active, idle, offline and break
\* minutes over exactly that user's ShiftHistory rows with check-in >=
\* now - days; an active shift adds nothing, and without such rows the
\* count and all sums are 0.
C25_UserStats ==
    last.op = "mystats" =>
        LET idx == {i \in DOMAIN shift_history :
                       /\ shift_history[i].user_id = last.user
                       /\ shift_history[i].check_in_time >= now - last.days * 86400}
            Sum(f) == <<SumFieldAt(shift_history, idx, f), 60>>
        IN /\ last.out.shifts = Cardinality(idx)
           /\ last.out.total_hours = Sum("total_minutes")
           /\ last.out.active_hours = Sum("active_minutes")
           /\ last.out.idle_hours = Sum("idle_minutes")
           /\ last.out.offline_hours = Sum("offline_minutes")
           /\ last.out.break_hours = Sum("break_minutes")
           /\ idx = {} => last.out.shifts = 0 /\ last.out.total_hours = <<0, 60>>

\* the statistics of today count the 45-minute shift of member 1 and not
\* the row of the other member
C25_Witness ==
    /\ last.op = "mystats" /\ last.user = 1 /\ last.days = 1
    /\ last.out.shifts = 1 /\ last.out.total_hours = <<45, 60>>
    /\ Len(shift_history) = 2 /\ shift_history[1].user_id # shift_history[2].user_id

\* the statistics with days = 0 leave out the member's only row, which
\* began before now
C25_WitnessCutoff ==
    /\ last.op = "mystats" /\ last.user = 1 /\ last.days = 0
    /\ last.out.shifts = 0
    /\ \E r \in Range(shift_history) : r.user_id = 1

\* C26: for every user on break the active-shifts listing reports the
\* remaining break time max(0, 40 - elapsed whole minutes of the break).
C26_RemainingBreak ==
    last.op = "whoisin" =>
        \A sh \in active_shifts :
            sh.on_break = 1 =>
               /\ last.ok
               /\ \E f \in last.out :
                     /\ f.user_id = sh.user_id
                     /\ f.remaining = Max(0, 40 - (now - sh.break_start_time) \div 60)

GatesEmptyOffShift ==
    \A u \in Users :
        ~HasShift(u) => offline_warnings_sent[u] = NULL /\ mobile_warnings_sent[u] = NULL

\* C21: a user without ActiveShift (after a check-out, until the next
\* check-in) has both cooldown gates empty, and the first offline event
\* handled in a shift requests the offline alert.
C21_GatesClearedAtCheckOut ==
    /\ GatesEmptyOffShift
    /\ [][/\ GatesEmptyOffShift'
          /\ \A u \in Users :
               /\ Ran("presence", u) /\ last'.ok
               /\ presence'[u].status = "offline" /\ off_first[u] = NULL
               => off_count'[u] = 1]_vars

\* C29: when a check-out writes its ShiftHistory row for a user whose break
\* has ended (the break-end task has cleared on_break and persisted the
\* BreakInterval row, possibly while the check-out was running), the row's
\* break minutes are the sum of the BreakInterval rows of the shift: the
\* break is counted once, not also as a break in progress.
C29_BreakCountedOnce ==
    [][\A u \in Users :
         /\ Ran("checkout", u) /\ last'.ok
         /\ HasShift(u) /\ ShiftOf(u).on_break = 0
         => LET row == LastRow(shift_history')
                logged == SumAt(break_logs, {i \in RowsOf(break_logs, u) :
                                               break_logs[i].break_start >= row.check_in_time})
            IN row.break_minutes = logged]_vars

\* C30: an idle or offline period of a user is persisted as at most one
\* StatusInterval row (no two rows of a user begin at the same time) and no
\* two StatusInterval rows of a user overlap.
C30_OnePeriodOneRow ==
    \A i, j \in DOMAIN status_logs :
        i < j /\ status_logs[i].user_id = status_logs[j].user_id =>
           /\ status_logs[i].start_time # status_logs[j].start_time
           /\ \/ status_logs[i].end_time <= status_logs[j].start_time
              \/ status_logs[j].end_time <= status_logs[i].start_time

\* C31: a /checkout that reports a shift summary closes a shift that is
\* active when it writes: the user has an active shift, the one
\* ShiftHistory row appended is the row of that shift, so of two
\* interleaved check-outs only one writes a row and reports a summary.
C31_OneRowPerShift ==
    [][\A u \in Users :
         Ran("checkout", u) /\ last'.ok =>
            /\ HasShift(u)
            /\ Len(shift_history') = Len(shift_history) + 1
            /\ LastRow(shift_history').check_in_time = ShiftOf(u).check_in_time]_vars

\* C32: a /checkin never answers with an error: it succeeds exactly when
\* the user has no active shift at the time it writes, otherwise it reports
\* the already-active failure, and afterwards the user has one active shift.
C32_SecondCheckInFails ==
    [][\A u \in Users :
         Ran("checkin", u) =>
            /\ "raised" \in DOMAIN last' => ~last'.raised
            /\ last'.ok <=> ~HasShift(u)
            /\ Cardinality({s \in active_shifts' : s.user_id = u}) = 1]_vars

\* a handled presence event leaves the tracked status at the category of
\* the overall status, whatever the surfaces are
StatusFollowsOverall(u) ==
    LET cat == IF presence'[u].status = "dnd" THEN "online" ELSE presence'[u].status
    IN \A sh \in ShiftRows(u)' : sh.current_status = cat

\* each gate is written by its own kind of event only, and a phone-only
\* event outside the mobile cooldown requests the mobile alert whatever the
\* offline gate holds
GatesIndependent(u) ==
    LET after == presence'[u]
        phone_only == /\ after.status # "offline"
                      /\ after.mobile_status # "offline"
                      /\ after.desktop_status = "offline" /\ after.web_status = "offline"
        cooling == /\ mobile_warnings_sent[u] # NULL
                   /\ now - mobile_warnings_sent[u] < 1800
    IN /\ offline_warnings_sent'[u] # offline_warnings_sent[u] => after.status = "offline"
       /\ mobile_warnings_sent'[u] # mobile_warnings_sent[u] => phone_only
       /\ phone_only /\ ~cooling /\ mob_first[u] = NULL => mob_first'[u] = now

\* C33: a handled presence event, phone-only or not, sets the tracked
\* status to the category of the overall status; within a shift at most one
\* mobile alert is requested per cooldown window of 1800 s; and the mobile
\* gate and the offline gate are independent.
C33_MobileOnly ==
    [][\A u \in Users :
         Ran("presence", u) /\ last'.ok =>
            /\ StatusFollowsOverall(u)
            /\ GatesIndependent(u)
            /\ mob_count'[u] <= 1]_vars

\* every status_logs row: idle or offline, not empty, at least 2 minutes,
\* the duration being end - start in whole minutes
StatusRowsWellFormed ==
    \A i \in DOMAIN status_logs :
        LET r == status_logs[i] IN
        /\ r.status \in {"idle", "offline"}
        /\ r.start_time < r.end_time
        /\ r.duration_minutes >= 2
        /\ r.duration_minutes = (r.end_time - r.start_time) \div 60

\* C34: every persisted StatusInterval row has label idle or offline,
\* start < end and duration_minutes >= 2 equal to end - start truncated to
\* whole minutes; a presence event that ends a tracked period of 0 or 1
\* whole minutes leaves no row.
C34_StatusRows ==
    [][/\ StatusRowsWellFormed'
       /\ \A u \in Users :
            /\ Ran("presence", u) /\ last'.ok
            /\ (now - ShiftOf(u).status_start_time) \div 60 <= 1
            => status_logs' = status_logs]_vars

\* the member was idle from 0 (the idle warning armed then is still
\* pending) and went offline at 90: the idle period of 1 whole minute left
\* no row
C34_Witness ==
    /\ last = Report("presence", 1, TRUE) /\ now = 90
    /\ HasShift(1) /\ ShiftOf(1).current_status = "offline"
    /\ ShiftOf(1).status_start_time = 90
    /\ idle_timers[1] = 300
    /\ status_logs = <<>>

\* the break-end tasks of user u that the step ends or moves on
BreakTasksStepped(u) ==
    {t \in tasks \ tasks' : t.user_id = u /\ t.kind \in {"break", "break_send"}}

\* C35: a break-end timer that ends a break is the timer armed for that
\* break (due 2400 s after the break's start), and a break-end timer that
\* finishes leaves the user's entry of the timer table alone when the entry
\* holds another, newer timer.
C35_TimerEndsOwnBreak ==
    [][\A u \in Users :
         /\ Ran("break_timer", u) /\ last'.ok =>
               \A t \in BreakTasksStepped(u) :
                   t.due = ShiftOf(u).break_start_time + 2400
         /\ last'.user = u /\ last'.op \in {"break_timer", "break_done"} =>
               \A t \in BreakTasksStepped(u) :
                   break_timers[u] # t.due /\ ~(last'.op = "break_timer" /\ last'.ok)
                   => break_timers'[u] = break_timers[u]]_vars

\* C36: the idle, offline and break minutes of the ShiftHistory row a
\* check-out writes are sums over the user's StatusInterval and
\* BreakInterval rows that lie inside the shift (from its check-in to now),
\* plus the break in progress of this shift only: rows of an earlier shift
\* and a break left open by an earlier shift add nothing.
C36_OnlyThisShift ==
    [][\A u \in Users :
         Ran("checkout", u) /\ last'.ok =>
            LET sh == ShiftOf(u)
                row == LastRow(shift_history')
                inside(label) == {i \in RowsOf(status_logs, u) :
                                    /\ status_logs[i].status = label
                                    /\ status_logs[i].start_time >= sh.check_in_time
                                    /\ status_logs[i].end_time <= now}
                breaks == {i \in RowsOf(break_logs, u) :
                             /\ break_logs[i].break_start >= sh.check_in_time
                             /\ break_logs[i].break_end <= now}
                open == IF sh.on_break = 1
                        THEN IF (now - sh.break_start_time) \div 60 < 40
                             THEN (now - sh.break_start_time) \div 60 ELSE 40
                        ELSE 0
            IN /\ sh.on_break = 1 => sh.break_start_time >= sh.check_in_time
               /\ row.idle_minutes = SumAt(status_logs, inside("idle"))
               /\ row.offline_minutes = SumAt(status_logs, inside("offline"))
               /\ row.break_minutes = SumAt(break_logs, breaks) + open]_vars

\* the second shift of the member is checked out with no idle and no break
\* minutes, while the first shift logged an idle period and a break
C36_Witness ==
    /\ last = Report("checkout", 1, TRUE)
    /\ Len(shift_history) = 2
    /\ shift_history[1].idle_minutes > 0 /\ shift_history[1].break_minutes > 0
    /\ shift_history[2].idle_minutes = 0 /\ shift_history[2].break_minutes = 0
    /\ status_logs # <<>> /\ break_logs # <<>>

\* the rows of user u in a table kept in id order
RowsOfUser(rows, u) == SelectSeq(rows, LAMBDA r : r.user_id = u)

\* everything the program holds about user b is left as it was
UserUntouched(b) ==
    /\ {s \in active_shifts' : s.user_id = b} = {s \in active_shifts : s.user_id = b}
    /\ RowsOfUser(shift_history', b) = RowsOfUser(shift_history, b)
    /\ RowsOfUser(status_logs', b) = RowsOfUser(status_logs, b)
    /\ RowsOfUser(break_logs', b) = RowsOfUser(break_logs, b)
    /\ {t \in tasks' : t.user_id = b} = {t \in tasks : t.user_id = b}
    /\ break_timers'[b] = break_timers[b] /\ idle_timers'[b] = idle_timers[b]
    /\ mobile_warnings_sent'[b] = mobile_warnings_sent[b]
    /\ offline_warnings_sent'[b] = offline_warnings_sent[b]

\* C37: a check-in, check-out, break start, break end, presence change or
\* timer firing of user a leaves the active shift, the StatusInterval,
\* BreakInterval and ShiftHistory rows, the pending timers and the cooldown
\* gates of every other user b unchanged.
C37_UsersIndependent ==
    [][\A a, b \in Users : last'.user = a /\ a # b => UserUntouched(b)]_vars

\* member 1 came back online at 2700 after an idle period that was logged,
\* while member 2 is checked in, idle since 0 with the warning pending
C37_Witness ==
    /\ last = Report("presence", 1, TRUE) /\ now = 2700
    /\ HasShift(1) /\ ShiftOf(1).current_status = "online"
    /\ ShiftOf(1).status_start_time = 2700
    /\ RowsOfUser(status_logs, 1) # <<>>
    /\ HasShift(2) /\ ShiftOf(2).current_status = "idle"
    /\ ShiftOf(2).status_start_time = 0
    /\ idle_timers[2] = 300

\* C38: whenever a user is checked in and not on break, the tracked status
\* is the category of the presence last delivered for the user (online and
\* dnd map to online, idle to idle, offline to offline), also after a
\* break during which the presence changed.
C38_StatusFollowsPresence ==
    \A u \in Users :
        HasShift(u) /\ ShiftOf(u).on_break = 0 =>
           ShiftOf(u).current_status =
               (IF presence[u].status = "dnd" THEN "online" ELSE presence[u].status)
====
